---------------------------- MODULE Spec2Model ----------------------------
(***************************************************************************)
(* Text de-identification of the MediLocal backend:                        *)
(*   AnonymizationService._anonymize_locally     (the redactor)            *)
(*   AnonymizationService.validate_anonymization (the reduced validator)   *)
(*   GDPRCompliance.validate_anonymization       (the full validator)      *)
(*   AnonymizationService.anonymize_text         (the public entry)        *)
(*   GDPRCompliance.calculate_retention_date     (the retention helper)    *)
(*                                                                         *)
(* A text is a sequence of one-character strings.  Offsets are Python's:   *)
(* 0-based, a span <<s, e>> is the slice text[s:e].  The regular           *)
(* expressions are kept as syntax trees and matched by a backtracking      *)
(* matcher with the priorities of Python's re (greedy repetition, ordered  *)
(* alternation, leftmost match), under re.IGNORECASE as the code passes    *)
(* it to every finditer/findall.                                           *)
(***************************************************************************)
EXTENDS Integers, Sequences, FiniteSets, TLC

VARIABLES
    pc,            \* position of the caller: which operation ran last
    text,          \* _anonymize_locally: the parameter `text`
    anonymized,    \* _anonymize_locally: the local `anonymized`
    replacements,  \* _anonymize_locally: the local `replacements` (the ledger)
    ci,            \* index of the current category in self.patterns
    ri,            \* index of the current pattern in the category's list
    scan,          \* the string the current finditer iterator is bound to
    pos,           \* the offset the current finditer iterator has reached
    origin,        \* history: for each ledger entry, the <<ci, ri>> that made it
    candidate,     \* the text handed to a validator
    raw,           \* the text before its placeholder version was built
    validation,    \* result of AnonymizationService.validate_anonymization
    gdpr,          \* result of GDPRCompliance.validate_anonymization
    sent,          \* the request bodies posted to the n8n webhook so far
    other,         \* the text handed to a validator in a second call
    original2,     \* the `original` argument of the second call
    validation2,   \* result of the second call of the reduced validator
    gdpr2,         \* result of the second call of the full validator
    frames,        \* concurrent callers: the locals of each caller's call
    tables,        \* the pattern catalogs and the retention table in memory
    retention,     \* the last call of calculate_retention_date and its result
    use_n8n,       \* anonymize_text: the parameter `use_n8n` of the call
    helper,        \* the last call of a GDPRCompliance helper and its result
    parser,        \* _parse_diagnosis_response: the lines left and the locals
    chat           \* process_chat: the requests made and the outcome

\* the state of the calls an action does not take part in
callVars == <<sent, other, original2, validation2, gdpr2, frames, tables, retention>>

\* the state of the helper, parser and chat calls
serviceVars == <<helper, parser, chat>>

vars == <<pc, text, anonymized, replacements, ci, ri, scan, pos, origin,
          candidate, raw, validation, gdpr, callVars, use_n8n, serviceVars>>

-----------------------------------------------------------------------------
(* Characters and character classes                                        *)

UpperSeq == <<"A","B","C","D","E","F","G","H","I","J","K","L","M","N","O",
              "P","Q","R","S","T","U","V","W","X","Y","Z","Ä","Ö","Ü">>
LowerSeq == <<"a","b","c","d","e","f","g","h","i","j","k","l","m","n","o",
              "p","q","r","s","t","u","v","w","x","y","z","ä","ö","ü">>
DigitSeq == <<"0","1","2","3","4","5","6","7","8","9">>

Range(s) == {s[i] : i \in 1..Len(s)}

AsciiUpper == Range(SubSeq(UpperSeq, 1, 26))
AsciiLower == Range(SubSeq(LowerSeq, 1, 26))
Digits     == Range(DigitSeq)

\* Simple case mapping of one character (str.lower on a single character).
ToLower(c) ==
    IF \E i \in 1..Len(UpperSeq) : UpperSeq[i] = c
    THEN LowerSeq[CHOOSE i \in 1..Len(UpperSeq) : UpperSeq[i] = c]
    ELSE c

ToUpper(c) ==
    IF \E i \in 1..Len(LowerSeq) : LowerSeq[i] = c
    THEN UpperSeq[CHOOSE i \in 1..Len(LowerSeq) : LowerSeq[i] = c]
    ELSE c

\* re.IGNORECASE on a character class: a character is in the class when one
\* of its case variants is.
IgnoreCase(S) == S \cup {ToLower(c) : c \in S} \cup {ToUpper(c) : c \in S}

\* \w, for \b
WordChars == AsciiUpper \cup AsciiLower \cup Range(UpperSeq) \cup Range(LowerSeq)
             \cup {"ß"} \cup Digits \cup {"_"}
\* \s
SpaceChars == {" ", "\t", "\n"}

ClsCapital   == IgnoreCase(AsciiUpper \cup {"Ä","Ö","Ü"})          \* [A-ZÄÖÜ]
ClsSmall     == IgnoreCase(AsciiLower \cup {"ä","ö","ü","ß"})      \* [a-zäöüß]
ClsSmallSp   == ClsSmall \cup SpaceChars                           \* [a-zäöüß\s]
ClsSepar     == SpaceChars \cup {"-"}                              \* [\s\-]
ClsMailLocal == IgnoreCase(AsciiUpper \cup AsciiLower \cup Digits
                           \cup {".","_","%","+","-"})              \* [A-Za-z0-9._%+-]
ClsMailDom   == IgnoreCase(AsciiUpper \cup AsciiLower \cup Digits
                           \cup {".","-"})                          \* [A-Za-z0-9.-]
ClsMailTld   == IgnoreCase(AsciiUpper \cup AsciiLower \cup {"|"})  \* [A-Z|a-z]
ClsLetter    == IgnoreCase(AsciiUpper)                             \* [A-Z]

-----------------------------------------------------------------------------
(* Regular expressions: a pattern is a sequence of items                   *)

WB          == [k |-> "b"]                                 \* \b
Rep(S,lo,hi) == [k |-> "c", cls |-> S, lo |-> lo, hi |-> hi] \* S{lo,hi}
Plus(S)     == [k |-> "p", cls |-> S, lo |-> 1]            \* S+
AtLeast(S,lo) == [k |-> "p", cls |-> S, lo |-> lo]         \* S{lo,}
One(S)      == [k |-> "c", cls |-> S, lo |-> 1, hi |-> 1]  \* S
Opt1(S)     == [k |-> "c", cls |-> S, lo |-> 0, hi |-> 1]  \* S?
Lit(s)      == [k |-> "l", s |-> s]                        \* literal text
Alt(as)     == [k |-> "a", alts |-> as]                    \* (?:a1|a2|...)
OptGroup(r) == [k |-> "a", alts |-> <<r, <<>>>>]           \* (?:r)?

\* a score that is not clamped at its lower end
MaxSecond(a, b) == b

Max(a, b) == IF a > b THEN a ELSE b

IsWordAt(t, i) == i >= 0 /\ i < Len(t) /\ t[i + 1] \in WordChars

\* \b at offset i of t
Boundary(t, i) == IsWordAt(t, i - 1) # IsWordAt(t, i)

\* number of consecutive characters of class S from offset i, at most cap
RECURSIVE RunLen(_, _, _, _)
RunLen(S, t, i, cap) ==
    IF cap = 0 \/ i >= Len(t) \/ t[i + 1] \notin S THEN 0
    ELSE 1 + RunLen(S, t, i + 1, cap - 1)

\* literal s at offset i of t, compared case-insensitively
LitAt(s, t, i) ==
    /\ i + Len(s) <= Len(t)
    /\ \A j \in 1..Len(s) : ToLower(t[i + j]) = ToLower(s[j])

\* MatchHere(re, t, i): the end offset of the match of re that starts at
\* offset i and that a backtracking matcher finds first, or -1.
RECURSIVE MatchHere(_, _, _)
RECURSIVE TryCounts(_, _, _, _, _)
RECURSIVE TryAlts(_, _, _, _)

TryCounts(rest, t, i, n, lo) ==
    IF n < lo THEN -1
    ELSE LET e == MatchHere(rest, t, i + n)
         IN  IF e # -1 THEN e ELSE TryCounts(rest, t, i, n - 1, lo)

TryAlts(alts, rest, t, i) ==
    IF Len(alts) = 0 THEN -1
    ELSE LET e == MatchHere(Head(alts) \o rest, t, i)
         IN  IF e # -1 THEN e ELSE TryAlts(Tail(alts), rest, t, i)

MatchHere(re, t, i) ==
    IF Len(re) = 0 THEN i
    ELSE LET h == Head(re)
             rest == Tail(re)
         IN  CASE h.k = "b" -> IF Boundary(t, i) THEN MatchHere(rest, t, i) ELSE -1
               [] h.k = "c" -> TryCounts(rest, t, i, RunLen(h.cls, t, i, h.hi), h.lo)
               [] h.k = "p" -> TryCounts(rest, t, i, RunLen(h.cls, t, i, Len(t)), h.lo)
               [] h.k = "l" -> IF LitAt(h.s, t, i)
                               THEN MatchHere(rest, t, i + Len(h.s)) ELSE -1
               [] h.k = "a" -> TryAlts(h.alts, rest, t, i)

\* The next match an iterator at offset p yields: the leftmost start s >= p
\* with a match, as the span <<s, e>>; <<-1, -1>> when there is none.
RECURSIVE FindFrom(_, _, _)
FindFrom(re, t, p) ==
    IF p > Len(t) THEN <<-1, -1>>
    ELSE LET e == MatchHere(re, t, p)
         IN  IF e # -1 THEN <<p, e>> ELSE FindFrom(re, t, p + 1)

\* re.search: does the pattern match anywhere
Matches(re, t) == FindFrom(re, t, 0)[1] # -1

\* re.findall for a pattern without groups: the matched literals of the
\* non-overlapping matches, left to right
RECURSIVE FindAllFrom(_, _, _)
FindAllFrom(re, t, p) ==
    LET m == FindFrom(re, t, p)
    IN  IF m[1] = -1 THEN <<>>
        ELSE <<SubSeq(t, m[1] + 1, m[2])>>
             \o FindAllFrom(re, t, IF m[2] > m[1] THEN m[2] ELSE m[2] + 1)

FindAll(re, t) == FindAllFrom(re, t, 0)

-----------------------------------------------------------------------------
(* The pattern catalogs                                                    *)

\* \b[A-ZÄÖÜ][a-zäöüß]+\s+[A-ZÄÖÜ][a-zäöüß]+\b
ReFirstLast ==
    <<WB, One(ClsCapital), Plus(ClsSmall), Plus(SpaceChars),
      One(ClsCapital), Plus(ClsSmall), WB>>

\* \b(?:Herr|Frau|Dr\.|Prof\.)\s+[A-ZÄÖÜ][a-zäöüß]+
ReTitled ==
    <<WB,
      Alt(<<<<Lit(<<"H","e","r","r">>)>>,
           <<Lit(<<"F","r","a","u">>)>>,
           <<Lit(<<"D","r",".">>)>>,
           <<Lit(<<"P","r","o","f",".">>)>>>>),
      Plus(SpaceChars), One(ClsCapital), Plus(ClsSmall)>>

\* \b[A-ZÄÖÜ][a-zäöüß]+(?:-[A-ZÄÖÜ][a-zäöüß]+)?\b
ReHyphenated ==
    <<WB, One(ClsCapital), Plus(ClsSmall),
      OptGroup(<<Lit(<<"-">>), One(ClsCapital), Plus(ClsSmall)>>), WB>>

\* \b\d{1,5}\s+[A-ZÄÖÜ][a-zäöüß\s]+(?:straße|str\.|platz|weg|allee|gasse)\b
ReStreet ==
    <<WB, Rep(Digits, 1, 5), Plus(SpaceChars), One(ClsCapital), Plus(ClsSmallSp),
      Alt(<<<<Lit(<<"s","t","r","a","ß","e">>)>>,
           <<Lit(<<"s","t","r",".">>)>>,
           <<Lit(<<"p","l","a","t","z">>)>>,
           <<Lit(<<"w","e","g">>)>>,
           <<Lit(<<"a","l","l","e","e">>)>>,
           <<Lit(<<"g","a","s","s","e">>)>>>>),
      WB>>

\* \b\d{5}\s+[A-ZÄÖÜ][a-zäöüß\s]+\b
RePostalCity ==
    <<WB, Rep(Digits, 5, 5), Plus(SpaceChars), One(ClsCapital), Plus(ClsSmallSp), WB>>

\* \b(?:\+49|0)\s?\d{2,5}[\s\-]?\d{3,8}\b
RePhoneNational ==
    <<WB, Alt(<<<<Lit(<<"+","4","9">>)>>, <<Lit(<<"0">>)>>>>), Opt1(SpaceChars),
      Rep(Digits, 2, 5), Opt1(ClsSepar), Rep(Digits, 3, 8), WB>>

\* \b\d{3,5}[\s\-]\d{6,8}\b
RePhoneGrouped ==
    <<WB, Rep(Digits, 3, 5), One(ClsSepar), Rep(Digits, 6, 8), WB>>

\* \b[A-Za-z0-9._%+-]+@[A-Za-z0-9.-]+\.[A-Z|a-z]{2,}\b
ReEmail ==
    <<WB, Plus(ClsMailLocal), Lit(<<"@">>), Plus(ClsMailDom), Lit(<<".">>),
      AtLeast(ClsMailTld, 2), WB>>

\* \b\d{2}\s?\d{2}\s?\d{2}\s?\d{2}\s?[A-Z]\s?\d{3}\b
RePersonalausweis ==
    <<WB, Rep(Digits, 2, 2), Opt1(SpaceChars), Rep(Digits, 2, 2), Opt1(SpaceChars),
      Rep(Digits, 2, 2), Opt1(SpaceChars), Rep(Digits, 2, 2), Opt1(SpaceChars),
      One(ClsLetter), Opt1(SpaceChars), Rep(Digits, 3, 3), WB>>

\* \b[A-Z]\d{8}\b
ReReisepass == <<WB, One(ClsLetter), Rep(Digits, 8, 8), WB>>

\* \b\d{1,2}\.\d{1,2}\.\d{4}\b
ReDateNumeric ==
    <<WB, Rep(Digits, 1, 2), Lit(<<".">>), Rep(Digits, 1, 2), Lit(<<".">>),
      Rep(Digits, 4, 4), WB>>

\* \b\d{1,2}\s(?:Januar|...|Dezember)\s\d{4}\b
ReDateTextual ==
    <<WB, Rep(Digits, 1, 2), One(SpaceChars),
      Alt(<<<<Lit(<<"J","a","n","u","a","r">>)>>,
           <<Lit(<<"F","e","b","r","u","a","r">>)>>,
           <<Lit(<<"M","ä","r","z">>)>>,
           <<Lit(<<"A","p","r","i","l">>)>>,
           <<Lit(<<"M","a","i">>)>>,
           <<Lit(<<"J","u","n","i">>)>>,
           <<Lit(<<"J","u","l","i">>)>>,
           <<Lit(<<"A","u","g","u","s","t">>)>>,
           <<Lit(<<"S","e","p","t","e","m","b","e","r">>)>>,
           <<Lit(<<"O","k","t","o","b","e","r">>)>>,
           <<Lit(<<"N","o","v","e","m","b","e","r">>)>>,
           <<Lit(<<"D","e","z","e","m","b","e","r">>)>>>>),
      One(SpaceChars), Rep(Digits, 4, 4), WB>>

\* \b[A-Z]\d{9}\b
ReInsurance == <<WB, One(ClsLetter), Rep(Digits, 9, 9), WB>>

\* \b\d{2}\s?\d{6}\s?[A-Z]\s?\d{3}\b
ReInsuranceGrouped ==
    <<WB, Rep(Digits, 2, 2), Opt1(SpaceChars), Rep(Digits, 6, 6), Opt1(SpaceChars),
      One(ClsLetter), Opt1(SpaceChars), Rep(Digits, 3, 3), WB>>

\* the same dict written with the dates first
PatternsDatesFirst ==
    << [type |-> "dates",     rules |-> <<ReDateNumeric, ReDateTextual>>],
       [type |-> "names",     rules |-> <<ReFirstLast, ReTitled, ReHyphenated>>],
       [type |-> "addresses", rules |-> <<ReStreet, RePostalCity>>],
       [type |-> "phones",    rules |-> <<RePhoneNational, RePhoneGrouped>>],
       [type |-> "emails",    rules |-> <<ReEmail>>],
       [type |-> "ids",       rules |-> <<RePersonalausweis, ReReisepass>>],
       [type |-> "insurance", rules |-> <<ReInsurance, ReInsuranceGrouped>>] >>

\* AnonymizationService.patterns: a dict, iterated in insertion order
Patterns ==
    << [type |-> "names",     rules |-> <<ReFirstLast, ReTitled, ReHyphenated>>],
       [type |-> "addresses", rules |-> <<ReStreet, RePostalCity>>],
       [type |-> "phones",    rules |-> <<RePhoneNational, RePhoneGrouped>>],
       [type |-> "emails",    rules |-> <<ReEmail>>],
       [type |-> "ids",       rules |-> <<RePersonalausweis, ReReisepass>>],
       [type |-> "dates",     rules |-> <<ReDateNumeric, ReDateTextual>>],
       [type |-> "insurance", rules |-> <<ReInsurance, ReInsuranceGrouped>>] >>

\* suspicious_patterns of AnonymizationService.validate_anonymization
SuspiciousPatterns == <<ReFirstLast, RePostalCity, ReEmail>>

\* GDPRCompliance.SENSITIVE_PATTERNS: a dict, iterated in insertion order
SensitivePatterns ==
    << [name |-> "german_names",      pattern |-> ReFirstLast],
       [name |-> "addresses",         pattern |-> ReStreet],
       [name |-> "phone_numbers",     pattern |-> RePhoneNational],
       [name |-> "email_addresses",   pattern |-> ReEmail],
       [name |-> "german_ids",        pattern |-> RePersonalausweis],
       [name |-> "insurance_numbers", pattern |-> ReInsurance],
       [name |-> "dates",             pattern |-> ReDateNumeric] >>

-----------------------------------------------------------------------------
(* String helpers                                                          *)

\* str.find: the offset of the first occurrence of needle in hay, or -1
RECURSIVE FindSub(_, _, _)
FindSub(hay, needle, p) ==
    IF p + Len(needle) > Len(hay) THEN -1
    ELSE IF SubSeq(hay, p + 1, p + Len(needle)) = needle THEN p
    ELSE FindSub(hay, needle, p + 1)

\* `needle in hay`
Contains(hay, needle) == FindSub(hay, needle, 0) # -1

\* hay.replace(old, new, 1): the first occurrence only; hay itself when old
\* does not occur
ReplaceFirst(hay, old, new) ==
    LET i == FindSub(hay, old, 0)
    IN  IF i = -1 THEN hay
        ELSE SubSeq(hay, 1, i) \o new \o SubSeq(hay, i + Len(old) + 1, Len(hay))

\* str(n) of the f-string, n >= 0
RECURSIVE IntToStr(_)
IntToStr(n) ==
    IF n < 10 THEN <<DigitSeq[n + 1]>>
    ELSE IntToStr(n \div 10) \o <<DigitSeq[(n % 10) + 1]>>

-----------------------------------------------------------------------------
(* AnonymizationService._anonymize_locally                                 *)

\* the label of a pattern type in _generate_replacement's table
Label(type) ==
    CASE type = "names"     -> <<"N","A","M","E">>
      [] type = "addresses" -> <<"A","D","R","E","S","S","E">>
      [] type = "phones"    -> <<"T","E","L","E","F","O","N">>
      [] type = "emails"    -> <<"E","M","A","I","L">>
      [] type = "ids"       -> <<"I","D">>
      [] type = "dates"     -> <<"D","A","T","U","M">>
      [] type = "insurance" -> <<"V","E","R","S","I","C","H","E","R","U","N","G">>
      [] OTHER              -> <<"A","N","O","N","Y","M","I","Z","E","D">>

\* a table whose templates leave the index out
GenerateReplacementNoIndex(type, index) ==
    <<"[">> \o Label(type) \o <<"]">>

GenerateReplacement(type, index) ==
    <<"[">> \o Label(type) \o <<"_">> \o IntToStr(index) \o <<"]">>

CurrentType == Patterns[ci].type
CurrentRule == Patterns[ci].rules[ri]

\* a counter kept per pattern type
ReplacementIndexPerType(reps) ==
    Cardinality({k \in 1..Len(reps) : reps[k].type = CurrentType}) + 1

\* the index argument of the call of _generate_replacement
ReplacementIndex(reps) == Len(reps) + 1

\* an iterator that starts one character late
NextSpanSkipFirst == FindFrom(CurrentRule, scan, pos + 1)

\* what the finditer iterator of the current rule yields next
NextSpan == FindFrom(CurrentRule, scan, pos)

\* the offset the iterator continues from after the match <<s, e>>
AfterMatch(m) == IF m[2] > m[1] THEN m[2] ELSE m[2] + 1

\* anonymize_text(t, use_n8n = False) calls _anonymize_locally(t): the locals
\* are set up and the first finditer is created
Anonymize(t) ==
    /\ pc = "idle"
    /\ text' = t
    /\ anonymized' = t
    /\ replacements' = <<>>
    /\ ci' = 1
    /\ ri' = 1
    /\ scan' = t
    /\ pos' = 0
    /\ origin' = <<>>
    /\ pc' = "scan"
    /\ use_n8n' = FALSE
    /\ UNCHANGED serviceVars
    /\ UNCHANGED callVars
    /\ UNCHANGED <<candidate, raw, validation, gdpr>>

\* one pass of `for match in matches`
NextMatch ==
    /\ pc = "scan"
    /\ NextSpan[1] # -1
    /\ LET m == NextSpan
           original == SubSeq(scan, m[1] + 1, m[2])
           replacement == GenerateReplacement(CurrentType, ReplacementIndex(replacements))
       IN  /\ replacements' = Append(replacements,
                                     [original |-> original,
                                      replacement |-> replacement,
                                      type |-> CurrentType,
                                      position |-> m])
           /\ anonymized' = ReplaceFirst(anonymized, original, replacement)
           /\ pos' = AfterMatch(m)
           /\ origin' = Append(origin, <<ci, ri>>)
    /\ UNCHANGED <<use_n8n, serviceVars>>
    /\ UNCHANGED callVars
    /\ UNCHANGED <<pc, text, ci, ri, scan, candidate, raw, validation, gdpr>>

\* loops that start the rules of a category over after its last rule
NextRuleWrap ==
    /\ pc = "scan"
    /\ NextSpan[1] = -1
    /\ ~(ri = Len(Patterns[ci].rules) /\ ci = Len(Patterns))
    /\ ri' = IF ri < Len(Patterns[ci].rules) THEN ri + 1 ELSE 1
    /\ ci' = ci
    /\ scan' = anonymized
    /\ pos' = 0
    /\ UNCHANGED <<use_n8n, serviceVars>>
    /\ UNCHANGED callVars
    /\ UNCHANGED <<pc, text, anonymized, replacements, origin,
                   candidate, raw, validation, gdpr>>

\* the iterator is exhausted and the two for loops go on to the next pattern:
\* finditer is called on the text as it is now
NextRule ==
    /\ pc = "scan"
    /\ NextSpan[1] = -1
    /\ ~(ri = Len(Patterns[ci].rules) /\ ci = Len(Patterns))
    /\ IF ri < Len(Patterns[ci].rules)
       THEN ri' = ri + 1 /\ ci' = ci
       ELSE ri' = 1 /\ ci' = ci + 1
    /\ scan' = anonymized
    /\ pos' = 0
    /\ UNCHANGED <<use_n8n, serviceVars>>
    /\ UNCHANGED callVars
    /\ UNCHANGED <<pc, text, anonymized, replacements, origin,
                   candidate, raw, validation, gdpr>>

\* the last iterator is exhausted: the function returns its dict
Return ==
    /\ pc = "scan"
    /\ NextSpan[1] = -1
    /\ ri = Len(Patterns[ci].rules)
    /\ ci = Len(Patterns)
    /\ pc' = "done"
    /\ UNCHANGED <<use_n8n, serviceVars>>
    /\ UNCHANGED callVars
    /\ UNCHANGED <<text, anonymized, replacements, ci, ri, scan, pos, origin,
                   candidate, raw, validation, gdpr>>

-----------------------------------------------------------------------------
(* The public entry anonymize_text with use_n8n = True (the default)       *)

\* the json body of the request to {n8n_url}/webhook/anonymize-document
RequestBody(t) == [text |-> t, document_type |-> "medical"]

\* _anonymize_via_n8n: the text is posted to the n8n webhook
PostToN8n(t) ==
    /\ pc = "idle"
    /\ text' = t
    /\ sent' = Append(sent, RequestBody(t))
    /\ pc' = "posted"
    /\ use_n8n' = TRUE
    /\ UNCHANGED serviceVars
    /\ UNCHANGED <<anonymized, replacements, ci, ri, scan, pos, origin,
                   candidate, raw, validation, gdpr>>
    /\ UNCHANGED <<other, original2, validation2, gdpr2, frames, tables, retention>>

\* what the workflow may answer with status 200: the code returns
\* response.json() unseen, so the text comes back unchanged or blanked
N8nAnswers(t) == {t, <<>>}

\* status 200: response.json() is the result of anonymize_text
N8nReturns(answer) ==
    /\ pc = "posted"
    /\ anonymized' = answer
    /\ pc' = "remote_done"
    /\ UNCHANGED <<use_n8n, serviceVars>>
    /\ UNCHANGED <<text, replacements, ci, ri, scan, pos, origin,
                   candidate, raw, validation, gdpr>>
    /\ UNCHANGED callVars

\* an except branch that hands the text back as it came
FallbackUnredacted ==
    /\ pc = "posted"
    /\ anonymized' = text
    /\ replacements' = <<>>
    /\ ci' = Len(Patterns)
    /\ ri' = Len(Patterns[Len(Patterns)].rules)
    /\ scan' = <<>>
    /\ pos' = 0
    /\ origin' = <<>>
    /\ pc' = "scan"
    /\ UNCHANGED <<use_n8n, serviceVars>>
    /\ UNCHANGED <<text, candidate, raw, validation, gdpr>>
    /\ UNCHANGED callVars

\* any exception of the request (no answer in 30 s, a status other than
\* 200): anonymize_text falls back to _anonymize_locally(text)
Fallback ==
    /\ pc = "posted"
    /\ anonymized' = text
    /\ replacements' = <<>>
    /\ ci' = 1
    /\ ri' = 1
    /\ scan' = text
    /\ pos' = 0
    /\ origin' = <<>>
    /\ pc' = "scan"
    /\ UNCHANGED <<use_n8n, serviceVars>>
    /\ UNCHANGED <<text, candidate, raw, validation, gdpr>>
    /\ UNCHANGED callVars

-----------------------------------------------------------------------------
(* The validators                                                          *)

RECURSIVE Flatten(_)
Flatten(ss) == IF Len(ss) = 0 THEN <<>> ELSE Head(ss) \o Flatten(Tail(ss))

\* the penalty per remaining match of the reduced validator
ReducedPenalty == 10
\* the penalty per remaining match of the full validator
FullPenalty == 15

\* a loop over the suspicious patterns that stops at the first one with a match
RECURSIVE FirstHit(_, _)
FirstHit(pats, t) ==
    IF Len(pats) = 0 THEN <<>>
    ELSE IF Len(FindAll(Head(pats), t)) > 0 THEN FindAll(Head(pats), t)
    ELSE FirstHit(Tail(pats), t)

ValidateAnonymizationFirstHit(original, anon) ==
    LET issues == FirstHit(SuspiciousPatterns, anon)
    IN  [is_valid |-> Len(issues) = 0,
         potential_issues |-> issues,
         anonymization_score |-> Max(0, 100 - Len(issues) * ReducedPenalty)]

\* a validator that also compares the candidate with the original
ValidateAnonymizationDiff(original, anon) ==
    LET issues == Flatten([i \in 1..Len(SuspiciousPatterns) |->
                              FindAll(SuspiciousPatterns[i], anon)])
    IN  [is_valid |-> Len(issues) = 0 /\ anon # original,
         potential_issues |-> issues,
         anonymization_score |-> Max(0, 100 - Len(issues) * ReducedPenalty)]

\* AnonymizationService.validate_anonymization(original, anonymized)
ValidateAnonymization(original, anon) ==
    LET issues == Flatten([i \in 1..Len(SuspiciousPatterns) |->
                              FindAll(SuspiciousPatterns[i], anon)])
    IN  [is_valid |-> Len(issues) = 0,
         potential_issues |-> issues,
         anonymization_score |-> Max(0, 100 - Len(issues) * ReducedPenalty)]

\* a severity table without the phone numbers
SeverityPhoneMedium(name) ==
    IF name \in {"german_names", "addresses"} THEN "high" ELSE "medium"

Severity(name) ==
    IF name \in {"german_names", "addresses", "phone_numbers"} THEN "high" ELSE "medium"

\* a loop over the patterns that leaves the first one out
RECURSIVE FindingsSkipFirst(_, _)
FindingsSkipFirst(pats, t) ==
    IF Len(pats) <= 1 THEN <<>>
    ELSE LET ms == FindAll(pats[2].pattern, t)
         IN  (IF Len(ms) > 0
              THEN <<[type |-> pats[2].name, matches |-> ms,
                      severity |-> Severity(pats[2].name)]>>
              ELSE <<>>) \o FindingsSkipFirst(Tail(pats), t)

\* the issues list of GDPRCompliance.validate_anonymization: one finding per
\* pattern with at least one match, in the order of SENSITIVE_PATTERNS
RECURSIVE Findings(_, _)
Findings(pats, t) ==
    IF Len(pats) = 0 THEN <<>>
    ELSE LET ms == FindAll(Head(pats).pattern, t)
         IN  (IF Len(ms) > 0
              THEN <<[type |-> Head(pats).name, matches |-> ms,
                      severity |-> Severity(Head(pats).name)]>>
              ELSE <<>>) \o Findings(Tail(pats), t)

\* a count that goes down with every match
RECURSIVE TotalMatchesNegative(_)
TotalMatchesNegative(fs) ==
    IF Len(fs) = 0 THEN 0
    ELSE TotalMatchesNegative(Tail(fs)) - Len(Head(fs).matches)

RECURSIVE TotalMatches(_)
TotalMatches(fs) ==
    IF Len(fs) = 0 THEN 0 ELSE Len(Head(fs).matches) + TotalMatches(Tail(fs))

\* GDPRCompliance.validate_anonymization(text), without the timestamp
GDPRValidateAnonymization(t) ==
    LET issues == Findings(SensitivePatterns, t)
    IN  [is_anonymized |-> Len(issues) = 0,
         confidence_score |-> Max(0, 100 - TotalMatches(issues) * FullPenalty),
         issues |-> issues]

\* the caller hands the redactor's output to the reduced validator
ValidateOutput ==
    /\ pc = "done"
    /\ candidate' = anonymized
    /\ validation' = ValidateAnonymization(text, anonymized)
    /\ pc' = "validated"
    /\ UNCHANGED <<use_n8n, serviceVars>>
    /\ UNCHANGED callVars
    /\ UNCHANGED <<text, anonymized, replacements, ci, ri, scan, pos, origin, raw, gdpr>>

\* the caller hands the candidate text, with some original, to the reduced
\* validator
ValidateCandidate(o) ==
    /\ pc = "idle"
    /\ text' = o
    /\ validation' = ValidateAnonymization(o, candidate)
    /\ pc' = "checked"
    /\ UNCHANGED <<use_n8n, serviceVars>>
    /\ UNCHANGED callVars
    /\ UNCHANGED <<anonymized, replacements, ci, ri, scan, pos, origin,
                   candidate, raw, gdpr>>

\* the caller hands the candidate text to the full validator
GDPRValidate ==
    /\ pc = "idle"
    /\ raw' = candidate
    /\ gdpr' = GDPRValidateAnonymization(candidate)
    /\ pc' = "gdpr_raw"
    /\ UNCHANGED <<use_n8n, serviceVars>>
    /\ UNCHANGED callVars
    /\ UNCHANGED <<text, anonymized, replacements, ci, ri, scan, pos, origin,
                   candidate, validation>>

\* The text with every match of one pattern replaced by a placeholder of the
\* given type, numbered from k in the order of the matches.
RECURSIVE ReplaceAllFrom(_, _, _, _, _)
ReplaceAllFrom(re, type, t, p, k) ==
    LET m == FindFrom(re, t, p)
    IN  IF m[1] = -1 THEN SubSeq(t, p + 1, Len(t))
        ELSE SubSeq(t, p + 1, m[1]) \o GenerateReplacement(type, k)
             \o ReplaceAllFrom(re, type, t, AfterMatch(m), k + 1)

\* The anonymized fixture of a sensitive text: every name, phone number and
\* email replaced by [NAME_n], [TELEFON_n], [EMAIL_n].
PlaceholderVersion(t) ==
    LET t1 == ReplaceAllFrom(ReFirstLast, "names", t, 0, 1)
        t2 == ReplaceAllFrom(RePhoneNational, "phones", t1, 0, 1)
    IN  ReplaceAllFrom(ReEmail, "emails", t2, 0, 1)

\* the caller then hands the placeholder version of the same text to the full
\* validator
GDPRValidateReplaced ==
    /\ pc = "gdpr_raw"
    /\ candidate' = PlaceholderVersion(raw)
    /\ gdpr' = GDPRValidateAnonymization(PlaceholderVersion(raw))
    /\ pc' = "gdpr_replaced"
    /\ UNCHANGED <<use_n8n, serviceVars>>
    /\ UNCHANGED callVars
    /\ UNCHANGED <<text, anonymized, replacements, ci, ri, scan, pos, origin,
                   raw, validation>>

\* a second call of the reduced validator, with its own arguments
ValidateOther(o, b) ==
    /\ pc = "checked"
    /\ original2' = o
    /\ other' = b
    /\ validation2' = ValidateAnonymization(o, b)
    /\ pc' = "checked_twice"
    /\ UNCHANGED <<use_n8n, serviceVars>>
    /\ UNCHANGED <<text, anonymized, replacements, ci, ri, scan, pos, origin,
                   candidate, raw, validation, gdpr>>
    /\ UNCHANGED <<sent, gdpr2, frames, tables, retention>>

\* a second call of the full validator, with its own argument
GDPRValidateOther(b) ==
    /\ pc = "gdpr_raw"
    /\ other' = b
    /\ gdpr2' = GDPRValidateAnonymization(b)
    /\ pc' = "gdpr_twice"
    /\ UNCHANGED <<use_n8n, serviceVars>>
    /\ UNCHANGED <<text, anonymized, replacements, ci, ri, scan, pos, origin,
                   candidate, raw, validation, gdpr>>
    /\ UNCHANGED <<sent, original2, validation2, frames, tables, retention>>

-----------------------------------------------------------------------------
(* The tables in memory and the retention helper                           *)

\* a table with one period for all data types
RetentionPeriodsAllSeven ==
    [medical_records |-> 2555,
     audit_logs      |-> 2555,
     ai_interactions |-> 2555,
     consent_records |-> 2555,
     anonymized_data |-> 2555]

\* GDPRCompliance.RETENTION_PERIODS: days per data type
RetentionPeriods ==
    [medical_records |-> 2555,
     audit_logs      |-> 2190,
     ai_interactions |-> 1095,
     consent_records |-> 2555,
     anonymized_data |-> 3650]

\* what __init__ and the class body leave in memory
InitialTables ==
    [patterns           |-> Patterns,
     sensitive_patterns |-> SensitivePatterns,
     retention_periods  |-> RetentionPeriods]

\* a lookup that answers 0 for a key that is not in the dict
GetOrZero(d, key, default) == IF key \in DOMAIN d THEN d[key] ELSE 0

\* dict.get(key, default)
Get(d, key, default) == IF key \in DOMAIN d THEN d[key] ELSE default

\* the default of the lookup in calculate_retention_date
DefaultRetentionDays == 2555

\* the last day (counted from the first day considered) a call is made on
MaxDay == 15

Days == 0..MaxDay

\* the data types asked for: the five of the table and two it does not hold
DataTypes == DOMAIN RetentionPeriods \cup {"unknown", ""}

\* created_date + timedelta(days = retention_days), dates counted in days
RetentionDate(data_type, created_date) ==
    created_date + Get(tables.retention_periods, data_type, DefaultRetentionDays)

\* calculate_retention_date(data_type, created_date)
CalculateRetentionDate(data_type, created_date) ==
    /\ pc = "idle"
    /\ retention' = [data_type |-> data_type,
                     created_date |-> created_date,
                     defaulted |-> FALSE,
                     result |-> RetentionDate(data_type, created_date)]
    /\ pc' = "retained"
    /\ UNCHANGED <<use_n8n, serviceVars>>
    /\ UNCHANGED <<text, anonymized, replacements, ci, ri, scan, pos, origin,
                   candidate, raw, validation, gdpr>>
    /\ UNCHANGED <<sent, other, original2, validation2, gdpr2, frames, tables>>

\* calculate_retention_date(data_type): created_date is None and the clock
\* is read
CalculateRetentionDateNow(data_type) ==
    /\ pc = "idle"
    /\ \E utcnow \in Days :
          retention' = [data_type |-> data_type,
                        created_date |-> utcnow,
                        defaulted |-> TRUE,
                        result |-> RetentionDate(data_type, utcnow)]
    /\ pc' = "retained"
    /\ UNCHANGED <<use_n8n, serviceVars>>
    /\ UNCHANGED <<text, anonymized, replacements, ci, ri, scan, pos, origin,
                   candidate, raw, validation, gdpr>>
    /\ UNCHANGED <<sent, other, original2, validation2, gdpr2, frames, tables>>

-----------------------------------------------------------------------------
(* Concurrent callers                                                      *)

\* two callers in parallel, each making one call
Callers == {"c1", "c2"}

\* the locals of _anonymize_locally when the first finditer is created
StartLocals(t) ==
    [text |-> t, anonymized |-> t, replacements |-> <<>>,
     ci |-> 1, ri |-> 1, scan |-> t, pos |-> 0]

IdleFrame == [pc |-> "idle", arg |-> <<>>, loc |-> StartLocals(<<>>), result |-> <<>>]

\* one pass of the loops of _anonymize_locally on the locals L, with the
\* catalog cat: the next match is replaced, or the next pattern is begun, or
\* the loops are over
StepLocals(cat, L) ==
    LET type == cat[L.ci].type
        m == FindFrom(cat[L.ci].rules[L.ri], L.scan, L.pos)
        original == SubSeq(L.scan, m[1] + 1, m[2])
        replacement == GenerateReplacement(type, ReplacementIndex(L.replacements))
    IN  IF m[1] # -1
        THEN [done |-> FALSE,
              loc |-> [L EXCEPT !.replacements =
                                    Append(@, [original |-> original,
                                               replacement |-> replacement,
                                               type |-> type,
                                               position |-> m]),
                                !.anonymized = ReplaceFirst(@, original, replacement),
                                !.pos = AfterMatch(m)]]
        ELSE IF L.ri = Len(cat[L.ci].rules) /\ L.ci = Len(cat)
        THEN [done |-> TRUE, loc |-> L]
        ELSE [done |-> FALSE,
              loc |-> [L EXCEPT !.ri = IF L.ri < Len(cat[L.ci].rules) THEN L.ri + 1 ELSE 1,
                                !.ci = IF L.ri < Len(cat[L.ci].rules) THEN L.ci ELSE L.ci + 1,
                                !.scan = L.anonymized,
                                !.pos = 0]]

\* the dict _anonymize_locally returns from its locals
ResultOf(L) ==
    [original_text |-> L.text,
     anonymized_text |-> L.anonymized,
     replacements |-> L.replacements,
     replacement_count |-> Len(L.replacements)]

\* all callers working on one set of locals
FrameShared(c) == "c1"

\* where the locals of caller c's call are: in the call's own frame
FrameOf(c) == c

\* caller c calls _anonymize_locally(t)
CallAnonymize(c, t) ==
    /\ frames[c].pc = "idle"
    /\ frames' = [frames EXCEPT ![FrameOf(c)].loc = StartLocals(t),
                                ![c].arg = t,
                                ![c].pc = "scan"]
    /\ UNCHANGED <<use_n8n, serviceVars>>
    /\ UNCHANGED <<pc, text, anonymized, replacements, ci, ri, scan, pos, origin,
                   candidate, raw, validation, gdpr>>
    /\ UNCHANGED <<sent, other, original2, validation2, gdpr2, tables, retention>>

\* caller c's call goes through one pass of its loops, or returns
StepAnonymize(c) ==
    /\ frames[c].pc = "scan"
    /\ LET r == StepLocals(tables.patterns, frames[FrameOf(c)].loc)
       IN  frames' = [frames EXCEPT ![FrameOf(c)].loc = r.loc,
                                    ![c].pc = IF r.done THEN "done" ELSE "scan",
                                    ![c].result = IF r.done THEN ResultOf(r.loc) ELSE @]
    /\ UNCHANGED <<use_n8n, serviceVars>>
    /\ UNCHANGED <<pc, text, anonymized, replacements, ci, ri, scan, pos, origin,
                   candidate, raw, validation, gdpr>>
    /\ UNCHANGED <<sent, other, original2, validation2, gdpr2, tables, retention>>

\* caller c calls GDPRCompliance.validate_anonymization(t)
CallValidate(c, t) ==
    /\ frames[c].pc = "idle"
    /\ LET issues == Findings(tables.sensitive_patterns, t)
       IN  frames' = [frames EXCEPT
                ![c].arg = t,
                ![c].pc = "validated",
                ![c].result =
                    [is_anonymized |-> Len(issues) = 0,
                     confidence_score |->
                         Max(0, 100 - TotalMatches(issues) * FullPenalty),
                     issues |-> issues]]
    /\ UNCHANGED <<use_n8n, serviceVars>>
    /\ UNCHANGED <<pc, text, anonymized, replacements, ci, ri, scan, pos, origin,
                   candidate, raw, validation, gdpr>>
    /\ UNCHANGED <<sent, other, original2, validation2, gdpr2, tables, retention>>

\* caller c calls GDPRCompliance.calculate_retention_date(data_type, created_date)
CallRetention(c, data_type, created_date) ==
    /\ frames[c].pc = "idle"
    /\ frames' = [frames EXCEPT
             ![c].arg = <<data_type, created_date>>,
             ![c].pc = "retained",
             ![c].result = RetentionDate(data_type, created_date)]
    /\ UNCHANGED <<use_n8n, serviceVars>>
    /\ UNCHANGED <<pc, text, anonymized, replacements, ci, ri, scan, pos, origin,
                   candidate, raw, validation, gdpr>>
    /\ UNCHANGED <<sent, other, original2, validation2, gdpr2, tables, retention>>

-----------------------------------------------------------------------------
(* The GDPRCompliance helpers                                              *)

\* the last reading of the clock in a call (the first reading is 0)
MaxTime == 2

Times == 0..MaxTime

\* an f-string "{a}-{b}-{c}": its parts in order
Dashed(a, b, c) == <<a, "-", b, "-", c>>

\* hashlib.sha256(s.encode()).hexdigest()[:16]: a value that stands for the
\* digest of s, different for different s
Hash16(s) == [sha256_16 |-> s]

\* valid_requests of validate_data_subject_rights: a dict in insertion order
ValidRequests ==
    << [type |-> "access",
        basis |-> "Article 15 - Right of access"],
       [type |-> "rectification",
        basis |-> "Article 16 - Right to rectification"],
       [type |-> "erasure",
        basis |-> "Article 17 - Right to erasure"],
       [type |-> "restrict_processing",
        basis |-> "Article 18 - Right to restriction of processing"],
       [type |-> "data_portability",
        basis |-> "Article 20 - Right to data portability"],
       [type |-> "object",
        basis |-> "Article 21 - Right to object"],
       [type |-> "withdraw_consent",
        basis |-> "Article 7(3) - Right to withdraw consent"] >>

\* list(valid_requests.keys())
ValidTypes == [k \in 1..Len(ValidRequests) |-> ValidRequests[k].type]

\* a test for a valid type that knows the first six types only
IsValidTypeButLast(request_type) ==
    \E k \in 1..(Len(ValidRequests) - 1) : ValidRequests[k].type = request_type

\* request_type in valid_requests
IsValidType(request_type) ==
    \E k \in 1..Len(ValidRequests) : ValidRequests[k].type = request_type

\* valid_requests[request_type]
BasisOf(request_type) ==
    ValidRequests[CHOOSE k \in 1..Len(ValidRequests) :
                      ValidRequests[k].type = request_type].basis

\* the dict validate_data_subject_rights returns when the clock reads t1, t2
\* and t3 at its three calls of utcnow
DataSubjectRights(request_type, patient_id, t1, t2, t3) ==
    IF ~IsValidType(request_type)
    THEN [valid |-> FALSE,
          error |-> <<"Invalid request type: ", request_type>>,
          valid_types |-> ValidTypes]
    ELSE [valid |-> TRUE,
          request_type |-> request_type,
          legal_basis |-> BasisOf(request_type),
          patient_id |-> patient_id,
          request_id |-> Hash16(Dashed(request_type, patient_id, t1)),
          response_deadline |-> [from |-> t2, days |-> 30],
          timestamp |-> t3]

\* the request types asked for: the seven valid ones and two others
RequestTypes ==
    {ValidRequests[k].type : k \in 1..Len(ValidRequests)} \cup {"invalid_request", ""}

PatientIds == {"P-1", "P-2"}

\* GDPRCompliance.validate_data_subject_rights(request_type, patient_id)
ValidateDataSubjectRights(request_type, patient_id) ==
    /\ pc = "idle"
    /\ \E t1, t2, t3 \in Times :
          /\ t1 <= t2 /\ t2 <= t3
          /\ helper' = [call |-> "validate_data_subject_rights",
                        args |-> <<request_type, patient_id>>,
                        result |-> DataSubjectRights(request_type, patient_id,
                                                     t1, t2, t3)]
    /\ pc' = "helped"
    /\ UNCHANGED <<text, anonymized, replacements, ci, ri, scan, pos, origin,
                   candidate, raw, validation, gdpr, callVars, use_n8n, parser, chat>>

\* the high-risk processing activities of assess_privacy_impact
HighRiskActivities == {"profiling", "automated_decision_making", "large_scale_processing"}

\* a threshold test that is strict
AtLeastStrict(score, threshold) == score > threshold

\* risk_score >= threshold
AtLeastScore(score, threshold) == score >= threshold

\* the dict assess_privacy_impact returns when the clock reads t
PrivacyImpact(processing_activity, data_sensitivity, data_volume, automated_decisions, t) ==
    LET s1 == IF processing_activity \in HighRiskActivities THEN 30 ELSE 0
        s2 == s1 + (IF data_sensitivity = "special_category" THEN 25 ELSE 0)
        s3 == s2 + (IF data_volume = "large_scale" THEN 20 ELSE 0)
        risk_score == s3 + (IF automated_decisions THEN 25 ELSE 0)
        risk_factors ==
            (IF processing_activity \in HighRiskActivities
             THEN << <<"High-risk activity: ", processing_activity>> >> ELSE <<>>)
            \o (IF data_sensitivity = "special_category"
                THEN <<"Special category data (health data)">> ELSE <<>>)
            \o (IF data_volume = "large_scale"
                THEN <<"Large scale data processing">> ELSE <<>>)
            \o (IF automated_decisions
                THEN <<"Automated decision making">> ELSE <<>>)
        dpia_required == AtLeastScore(risk_score, 50)
    IN  [dpia_required |-> dpia_required,
         risk_score |-> risk_score,
         risk_level |-> IF AtLeastScore(risk_score, 70) THEN "high"
                        ELSE IF AtLeastScore(risk_score, 40) THEN "medium"
                        ELSE "low",
         risk_factors |-> risk_factors,
         recommendation |->
             IF dpia_required THEN "Conduct DPIA before processing"
             ELSE "DPIA not required but recommended for documentation",
         assessment_date |-> t]

Activities == HighRiskActivities \cup {"appointment_scheduling"}
Sensitivities == {"special_category", "personal"}
Volumes == {"large_scale", "small_scale"}

\* GDPRCompliance.assess_privacy_impact(processing_activity, data_sensitivity,
\* data_volume, automated_decisions)
AssessPrivacyImpact(processing_activity, data_sensitivity, data_volume, automated_decisions) ==
    /\ pc = "idle"
    /\ \E t \in Times :
          helper' = [call |-> "assess_privacy_impact",
                     args |-> <<processing_activity, data_sensitivity,
                                data_volume, automated_decisions>>,
                     result |-> PrivacyImpact(processing_activity, data_sensitivity,
                                              data_volume, automated_decisions, t)]
    /\ pc' = "helped"
    /\ UNCHANGED <<text, anonymized, replacements, ci, ri, scan, pos, origin,
                   candidate, raw, validation, gdpr, callVars, use_n8n, parser, chat>>

\* the readings utcnow may give after it gave t1: the clock does not go back
SecondReading(t1) == {t \in Times : t >= t1}

\* the dict generate_consent_record returns when the clock reads t1 for the
\* timestamp and t2 for the consent_id
ConsentRecord(patient_id, consent_type, consent_given, purpose, legal_basis, t1, t2) ==
    [patient_id |-> patient_id,
     consent_type |-> consent_type,
     consent_given |-> consent_given,
     purpose |-> purpose,
     legal_basis |-> legal_basis,
     timestamp |-> t1,
     consent_id |-> Hash16(Dashed(patient_id, consent_type, t2)),
     withdrawal_method |-> "Contact clinic administration or use patient portal",
     data_controller |-> "MediLocal AI System",
     retention_period |-> Get(tables.retention_periods, "consent_records", 2555)]

ConsentTypes == {"ai_processing", "data_storage"}

\* GDPRCompliance.generate_consent_record(patient_id, consent_type,
\* consent_given, purpose), legal_basis left at its default
GenerateConsentRecord(patient_id, consent_type, consent_given, purpose) ==
    /\ pc = "idle"
    /\ \E t1 \in Times : \E t2 \in SecondReading(t1) :
          helper' = [call |-> "generate_consent_record",
                     args |-> <<patient_id, consent_type, consent_given, purpose>>,
                     result |-> ConsentRecord(patient_id, consent_type,
                                              consent_given, purpose,
                                              "Article 6(1)(a) - Consent", t1, t2)]
    /\ pc' = "helped"
    /\ UNCHANGED <<text, anonymized, replacements, ci, ri, scan, pos, origin,
                   candidate, raw, validation, gdpr, callVars, use_n8n, parser, chat>>

-----------------------------------------------------------------------------
(* AIService._parse_diagnosis_response                                     *)

\* str.lower
Lower(s) == [i \in 1..Len(s) |-> ToLower(s[i])]

\* str.lstrip(chars)
RECURSIVE LStrip(_, _)
LStrip(s, chars) ==
    IF Len(s) > 0 /\ s[1] \in chars THEN LStrip(Tail(s), chars) ELSE s

\* str.rstrip(chars)
RECURSIVE RStrip(_, _)
RStrip(s, chars) ==
    IF Len(s) > 0 /\ s[Len(s)] \in chars THEN RStrip(SubSeq(s, 1, Len(s) - 1), chars)
    ELSE s

\* str.strip()
Strip(s) == RStrip(LStrip(s, SpaceChars), SpaceChars)

\* str.startswith(prefix)
StartsWith(s, prefix) ==
    Len(prefix) <= Len(s) /\ SubSeq(s, 1, Len(prefix)) = prefix

\* the bullet character U+2022, written here as the middle dot
Bullet == "·"

\* the prefixes an item line is recognised by
ItemPrefixes == { <<Bullet>>, <<"-">>, <<"*">>, <<"1",".">>, <<"2",".">>, <<"3",".">> }

\* the characters of the argument of line.lstrip, bullet - * 1 2 3 . and blank
ItemStripChars == {Bullet, "-", "*", "1", "2", "3", ".", " "}

KwDiagnose     == <<"d","i","a","g","n","o","s","e">>
KwTest         == <<"t","e","s","t">>
KwUntersuchung == <<"u","n","t","e","r","s","u","c","h","u","n","g">>
KwBehandlung   == <<"b","e","h","a","n","d","l","u","n","g">>

\* the parser before a call
IdleParser ==
    [response |-> <<>>, rest |-> <<>>, current_section |-> "None",
     diagnoses |-> <<>>, tests |-> <<>>, treatments |-> <<>>]

\* one pass of `for line in response.split('\n')` on the parser state P
ParseStep(P) ==
    LET line == Strip(Head(P.rest))
        low == Lower(line)
        clean_line == LStrip(line, ItemStripChars)
        Q == [P EXCEPT !.rest = Tail(P.rest)]
    IN  IF line = <<>> THEN Q
        ELSE IF Contains(low, KwDiagnose)
        THEN [Q EXCEPT !.current_section = "diagnoses"]
        ELSE IF Contains(low, KwTest) \/ Contains(low, KwUntersuchung)
        THEN [Q EXCEPT !.current_section = "tests"]
        ELSE IF Contains(low, KwBehandlung)
        THEN [Q EXCEPT !.current_section = "treatments"]
        ELSE IF \E prefix \in ItemPrefixes : StartsWith(line, prefix)
        THEN IF P.current_section = "diagnoses"
             THEN [Q EXCEPT !.diagnoses = Append(@, clean_line)]
             ELSE IF P.current_section = "tests"
             THEN [Q EXCEPT !.tests = Append(@, clean_line)]
             ELSE IF P.current_section = "treatments"
             THEN [Q EXCEPT !.treatments = Append(@, clean_line)]
             ELSE Q
        ELSE Q

\* the call _parse_diagnosis_response(response): response, already split at
\* its newlines, is lines
ParseDiagnosisResponse(lines) ==
    /\ pc = "idle"
    /\ parser' = [IdleParser EXCEPT !.response = lines, !.rest = lines]
    /\ pc' = "parsing"
    /\ UNCHANGED <<text, anonymized, replacements, ci, ri, scan, pos, origin,
                   candidate, raw, validation, gdpr, callVars, use_n8n, helper, chat>>

\* the loop takes the next line
ParseLine ==
    /\ pc = "parsing"
    /\ Len(parser.rest) > 0
    /\ parser' = ParseStep(parser)
    /\ UNCHANGED <<pc, text, anonymized, replacements, ci, ri, scan, pos, origin,
                   candidate, raw, validation, gdpr, callVars, use_n8n, helper, chat>>

\* the loop is over: return diagnoses, tests, treatments
ParseReturn ==
    /\ pc = "parsing"
    /\ Len(parser.rest) = 0
    /\ pc' = "parsed"
    /\ UNCHANGED <<text, anonymized, replacements, ci, ri, scan, pos, origin,
                   candidate, raw, validation, gdpr, callVars, use_n8n, serviceVars>>

-----------------------------------------------------------------------------
(* AIService.process_chat                                                  *)

UncertaintyWords ==
    { <<"m","ö","g","l","i","c","h","e","r","w","e","i","s","e">>,
      <<"k","ö","n","n","t","e">>,
      <<"e","v","e","n","t","u","e","l","l">>,
      <<"u","n","s","i","c","h","e","r">>,
      <<"u","n","k","l","a","r">> }

ConfidenceWords ==
    { <<"w","a","h","r","s","c","h","e","i","n","l","i","c","h">>,
      <<"t","y","p","i","s","c","h">>,
      <<"c","h","a","r","a","k","t","e","r","i","s","t","i","s","c","h">>,
      <<"e","i","n","d","e","u","t","i","g">> }

\* _assess_confidence(response)
AssessConfidence(response) ==
    LET uncertainty_count ==
            Cardinality({w \in UncertaintyWords : Contains(Lower(response), w)})
        confidence_count ==
            Cardinality({w \in ConfidenceWords : Contains(Lower(response), w)})
    IN  IF confidence_count > uncertainty_count THEN "high"
        ELSE IF uncertainty_count > confidence_count THEN "low"
        ELSE "medium"

\* _build_system_prompt(context_type): the base prompt and the prompt of the
\* context type, the one of "general" for a type that is not in the dict
BuildSystemPrompt(context_type) ==
    <<"base_prompt",
      IF context_type \in {"diagnosis", "treatment", "summary", "general"}
      THEN context_type ELSE "general">>

\* the prompt posted to Ollama
PromptOf(message, patient_id, context_type) ==
    BuildSystemPrompt(context_type)
    \o (IF patient_id # ""
        THEN <<"Patient Context: Anonymized patient context for ID: ", patient_id>>
        ELSE <<>>)
    \o <<"User: ", message, "Assistant:">>

\* the texts Ollama may answer with
ResponseTexts == { <<"e","i","n","d","e","u","t","i","g">>, <<"u","n","k","l","a","r">>, <<"o","k">> }

\* what may come back of the request to Ollama: an exception of the client
\* (no connection, no answer in 60 s), or an answer with a status and a body
\* that is json with a response, json without one, or no json
OllamaReplies ==
    {[raised |-> TRUE, status |-> 0, json |-> FALSE, body |-> <<>>]}
    \cup {[raised |-> FALSE, status |-> 200, json |-> TRUE, body |-> [response |-> r]] :
             r \in ResponseTexts}
    \cup {[raised |-> FALSE, status |-> 200, json |-> TRUE, body |-> [error |-> "model"]],
          [raised |-> FALSE, status |-> 200, json |-> FALSE, body |-> <<>>],
          [raised |-> FALSE, status |-> 500, json |-> TRUE, body |-> [error |-> "server"]]}

\* what may come back of the request to the n8n webhook
N8nReplies ==
    {[raised |-> TRUE, status |-> 0, json |-> FALSE, body |-> <<>>],
     [raised |-> FALSE, status |-> 200, json |-> TRUE, body |-> [response |-> "workflow"]],
     [raised |-> FALSE, status |-> 200, json |-> FALSE, body |-> <<>>],
     [raised |-> FALSE, status |-> 500, json |-> TRUE, body |-> [error |-> "server"]]}

\* the try block of process_chat gets to its return statement
OllamaUsable(reply) ==
    /\ ~reply.raised
    /\ reply.status = 200
    /\ reply.json
    /\ "response" \in DOMAIN reply.body

\* the try block of _fallback_to_n8n gets to its return statement
N8nUsable(reply) == ~reply.raised /\ reply.status = 200 /\ reply.json

\* a canned dict that carries a session id of its own
UnavailableFresh(session_id) ==
    [response |-> "Entschuldigung, der KI-Service ist momentan nicht verfügbar. Bitte versuchen Sie es später erneut.",
     confidence |-> "low",
     processing_time |-> 0,
     model_used |-> "fallback",
     session_id |-> "uuid-0"]

\* the dict of the except branch of _fallback_to_n8n
Unavailable(session_id) ==
    [response |-> "Entschuldigung, der KI-Service ist momentan nicht verfügbar. Bitte versuchen Sie es später erneut.",
     confidence |-> "low",
     processing_time |-> 0,
     model_used |-> "fallback",
     session_id |-> session_id]

\* the chat before a call
IdleChat ==
    [message |-> "", context_type |-> "", session_id |-> "",
     requests |-> <<>>, replies |-> <<>>, outcome |-> <<>>, source |-> "none"]

Messages == {"Was ist Fieber?"}
ContextTypes == {"general", "diagnosis", "smalltalk"}
SessionIds == {"uuid-1", "uuid-2"}

\* process_chat(message, patient_id, context_type) up to its request to
\* Ollama; session_id is the uuid4 drawn at the start, patient_id "" is None
ProcessChat(message, patient_id, context_type, session_id) ==
    /\ pc = "idle"
    /\ chat' = [IdleChat EXCEPT
                   !.message = message,
                   !.context_type = context_type,
                   !.session_id = session_id,
                   !.requests = <<[to |-> "ollama",
                                   model |-> "DEFAULT_LLM_MODEL",
                                   prompt |-> PromptOf(message, patient_id,
                                                       context_type)]>>]
    /\ pc' = "chat_ollama"
    /\ UNCHANGED <<text, anonymized, replacements, ci, ri, scan, pos, origin,
                   candidate, raw, validation, gdpr, callVars, use_n8n, helper, parser>>

\* the request to Ollama is over: process_chat returns the answer, or calls
\* _fallback_to_n8n, which posts to the webhook
OllamaDone(reply, elapsed) ==
    /\ pc = "chat_ollama"
    /\ IF OllamaUsable(reply)
       THEN /\ chat' = [chat EXCEPT
                          !.replies = Append(@, reply),
                          !.source = "ollama",
                          !.outcome =
                              [response |-> reply.body.response,
                               confidence |-> AssessConfidence(reply.body.response),
                               processing_time |-> elapsed,
                               model_used |-> "DEFAULT_LLM_MODEL",
                               session_id |-> chat.session_id]]
            /\ pc' = "chat_done"
       ELSE /\ chat' = [chat EXCEPT
                          !.replies = Append(@, reply),
                          !.requests = Append(@, [to |-> "n8n",
                                                  message |-> chat.message,
                                                  context_type |-> chat.context_type,
                                                  session_id |-> chat.session_id])]
            /\ pc' = "chat_n8n"
    /\ UNCHANGED <<text, anonymized, replacements, ci, ri, scan, pos, origin,
                   candidate, raw, validation, gdpr, callVars, use_n8n, helper, parser>>

\* the request to the webhook is over: _fallback_to_n8n returns the
\* workflow's json, or the canned dict
N8nDone(reply) ==
    /\ pc = "chat_n8n"
    /\ chat' = [chat EXCEPT
                   !.replies = Append(@, reply),
                   !.source = IF N8nUsable(reply) THEN "n8n" ELSE "fallback",
                   !.outcome = IF N8nUsable(reply) THEN reply.body
                               ELSE Unavailable(chat.session_id)]
    /\ pc' = "chat_done"
    /\ UNCHANGED <<text, anonymized, replacements, ci, ri, scan, pos, origin,
                   candidate, raw, validation, gdpr, callVars, use_n8n, helper, parser>>

-----------------------------------------------------------------------------
(* The redaction runs that are checked                                     *)

\* the most tokens an input text is made of
MaxTokens == 3

RECURSIVE TextsOf(_, _)
TextsOf(toks, n) ==
    IF n = 0 THEN {<<>>}
    ELSE LET S == TextsOf(toks, n - 1) IN S \cup {s \o t : s \in S, t \in toks}

\* an ordinary word, a first and last name, an upper-case word, a blank, a
\* date and a placeholder left by an earlier redaction
Tokens ==
    { <<"a","a">>, <<"a","a"," ","a","a">>, <<"M","E">>, <<" ">>,
      <<"1",".","1",".","2","0","0","0">>,
      <<"[","N","A","M","E","_","1","]">> }

\* two texts given in full: a consultation note with one date, and one
\* upper-case word twice
Konsultation ==
    <<"K","o","n","s","u","l","t","a","t","i","o","n"," ","v","o","m"," ">>
    \o <<"1","5",".","1","2",".","2","0","2","3">>
    \o <<":"," ","P","a","t","i","e","n","t"," ","k","l","a","g","t"," ">>
    \o <<"ü","b","e","r"," ","K","o","p","f","s","c","h","m","e","r","z","e","n",".">>

GivenTexts == { Konsultation, <<"M","E",","," ","M","E">> }

InputTexts == TextsOf(Tokens, MaxTokens) \cup GivenTexts

\* the state of the calls that have not been made
InitCalls ==
    /\ sent = <<>>
    /\ other = <<>>
    /\ original2 = <<>>
    /\ validation2 = <<>>
    /\ gdpr2 = <<>>
    /\ frames = [c \in Callers |-> IdleFrame]
    /\ tables = InitialTables
    /\ retention = <<>>
    /\ use_n8n = FALSE
    /\ helper = <<>>
    /\ parser = IdleParser
    /\ chat = IdleChat

Init ==
    /\ pc = "idle"
    /\ text = <<>>
    /\ anonymized = <<>>
    /\ replacements = <<>>
    /\ ci = 1
    /\ ri = 1
    /\ scan = <<>>
    /\ pos = 0
    /\ origin = <<>>
    /\ candidate = <<>>
    /\ raw = <<>>
    /\ validation = <<>>
    /\ gdpr = <<>>
    /\ InitCalls

Next ==
    \/ \E t \in InputTexts : Anonymize(t)
    \/ \E t \in InputTexts : PostToN8n(t)
    \/ \E answer \in N8nAnswers(text) : N8nReturns(answer)
    \/ Fallback
    \/ NextMatch
    \/ NextRule
    \/ Return
    \/ ValidateOutput

Spec == Init /\ [][Next]_vars

-----------------------------------------------------------------------------
(* The validator calls that are checked                                    *)

\* an ordinary word, a blank, two placeholders, a date, a phone number and an
\* email address
CandidateTokens ==
    { <<"a","a">>, <<" ">>,
      <<"[","N","A","M","E","_","1","]">>,
      <<"[","A","D","R","E","S","S","E","_","1","]">>,
      <<"1",".","1",".","2","0","0","0">>,
      <<"0","1","2","3","4","5">>,
      <<"a","@","b",".","c","d">> }

\* the most tokens a candidate text is made of
MaxCandidateTokens == 3

\* eight words in a row: four first-and-last-name matches in one token
ManyNames ==
    <<"a","a"," ","a","a"," ","a","a"," ","a","a"," ",
      "a","a"," ","a","a"," ","a","a"," ","a","a">>

\* texts with many leaks: a blank, a date, a phone number, an email address,
\* an insurance number and a run of names
LeakTokens ==
    { <<" ">>,
      <<"1",".","1",".","2","0","0","0">>,
      <<"0","1","2","3","4","5">>,
      <<"a","@","b",".","c","d">>,
      <<"A","1","2","3","4","5","6","7","8","9">>,
      ManyNames }

\* the most tokens a text with many leaks is made of
MaxLeakTokens == 3

CandidateTexts ==
    TextsOf(CandidateTokens, MaxCandidateTokens) \cup TextsOf(LeakTokens, MaxLeakTokens)

\* the `original` arguments tried with each candidate
Originals == { <<>>, <<"a","a"," ","a","a">> }

InitV ==
    /\ pc = "idle"
    /\ candidate \in CandidateTexts
    /\ text = <<>>
    /\ anonymized = <<>>
    /\ replacements = <<>>
    /\ ci = 1
    /\ ri = 1
    /\ scan = <<>>
    /\ pos = 0
    /\ origin = <<>>
    /\ raw = <<>>
    /\ validation = <<>>
    /\ gdpr = <<>>
    /\ InitCalls

NextV ==
    \/ \E o \in Originals : ValidateCandidate(o)
    \/ GDPRValidate
    \/ GDPRValidateReplaced

SpecV == InitV /\ [][NextV]_vars

-----------------------------------------------------------------------------
(* Pairs of validator calls                                                *)

\* a first and last name, a blank and a date
PairTokens ==
    { <<"a","a"," ","a","a">>, <<" ">>, <<"1",".","1",".","2","0","0","0">> }

\* the most tokens a text of a pair is made of
MaxPairTokens == 3

PairTexts == TextsOf(PairTokens, MaxPairTokens)

InitP ==
    /\ pc = "idle"
    /\ candidate \in PairTexts
    /\ text = <<>>
    /\ anonymized = <<>>
    /\ replacements = <<>>
    /\ ci = 1
    /\ ri = 1
    /\ scan = <<>>
    /\ pos = 0
    /\ origin = <<>>
    /\ raw = <<>>
    /\ validation = <<>>
    /\ gdpr = <<>>
    /\ InitCalls

NextP ==
    \/ \E o \in Originals : ValidateCandidate(o)
    \/ \E o \in Originals, b \in PairTexts : ValidateOther(o, b)
    \/ GDPRValidate
    \/ \E b \in PairTexts : GDPRValidateOther(b)

SpecP == InitP /\ [][NextP]_vars

-----------------------------------------------------------------------------
(* Concurrent calls                                                        *)

\* the most tokens a text handed over by a concurrent caller is made of
MaxConcTokens == 1

ConcTexts ==
    TextsOf({ <<"a","a"," ","a","a">>, <<"1",".","1",".","2","0","0","0">> },
            MaxConcTokens)

NextC ==
    \/ \E c \in Callers, t \in ConcTexts : CallAnonymize(c, t)
    \/ \E c \in Callers : StepAnonymize(c)
    \/ \E c \in Callers, t \in ConcTexts : CallValidate(c, t)
    \/ \E c \in Callers : CallRetention(c, "unknown", 0)

SpecC == Init /\ [][NextC]_vars

-----------------------------------------------------------------------------
(* Retention calls                                                         *)

NextR ==
    \/ \E data_type \in DataTypes, created_date \in Days :
          CalculateRetentionDate(data_type, created_date)
    \/ \E data_type \in DataTypes : CalculateRetentionDateNow(data_type)

SpecR == Init /\ [][NextR]_vars

-----------------------------------------------------------------------------
(* Redaction runs that are not held up                                     *)

\* the request to n8n ends: with an answer, or with an exception after the
\* timeout of 30 s at the latest
RequestEnds == Fallback \/ \E answer \in N8nAnswers(text) : N8nReturns(answer)

\* one pass of the loops of _anonymize_locally
LoopPass == NextMatch \/ NextRule \/ Return

\* a call that has begun goes on: the request gets its answer or its
\* exception, and the loops take their next pass. The second condition is
\* WF_vars(LoopPass) with ENABLED <<LoopPass>>_vars written out as pc = "scan":
\* a pass appends to the ledger, moves to another rule or returns.
SpecL ==
    /\ Spec
    /\ WF_vars(RequestEnds)
    /\ ([]<>(pc # "scan") \/ []<><<LoopPass>>_vars)

-----------------------------------------------------------------------------
(* Calls of the GDPRCompliance helpers                                     *)

NextG ==
    \/ \E request_type \in RequestTypes, patient_id \in PatientIds :
          ValidateDataSubjectRights(request_type, patient_id)
    \/ \E activity \in Activities, sensitivity \in Sensitivities,
          volume \in Volumes, automated \in BOOLEAN :
          AssessPrivacyImpact(activity, sensitivity, volume, automated)
    \/ \E patient_id \in PatientIds, consent_type \in ConsentTypes,
          consent_given \in BOOLEAN :
          GenerateConsentRecord(patient_id, consent_type, consent_given,
                                "Medical AI assistance")

SpecG == Init /\ [][NextG]_vars

-----------------------------------------------------------------------------
(* Calls of the AI service                                                 *)

\* the lines a response is made of: three headers, items with a bullet, a
\* dash, a star and a number, a blank line and a line of text
ParseLines ==
    { <<"D","i","a","g","n","o","s","e","n",":">>,
      <<"T","e","s","t","s",":">>,
      <<"B","e","h","a","n","d","l","u","n","g",":">>,
      <<"-"," ","a","a">>,
      <<"1","."," ","b","b">>,
      <<" "," ","*"," ","c","c">>,
      <<"·"," ","d","d">>,
      <<"4","."," ","e","e">>,
      <<"-"," ","B","l","u","t","t","e","s","t">>,
      <<>>,
      <<"a","a">> }

\* the most lines a response has
MaxLines == 3

RECURSIVE LinesOf(_)
LinesOf(n) ==
    IF n = 0 THEN {<<>>}
    ELSE LET S == LinesOf(n - 1) IN S \cup {Append(r, l) : r \in S, l \in ParseLines}

Responses == LinesOf(MaxLines)

NextA ==
    \/ \E lines \in Responses : ParseDiagnosisResponse(lines)
    \/ ParseLine
    \/ ParseReturn
    \/ \E message \in Messages, patient_id \in PatientIds \cup {""},
          context_type \in ContextTypes, session_id \in SessionIds :
          ProcessChat(message, patient_id, context_type, session_id)
    \/ \E reply \in OllamaReplies, elapsed \in Times : OllamaDone(reply, elapsed)
    \/ \E reply \in N8nReplies : N8nDone(reply)

SpecA == Init /\ [][NextA]_vars

-----------------------------------------------------------------------------
(* Properties of the redactor, under Spec                                  *)

Returned == pc \in {"done", "validated"}

Entries == 1..Len(replacements)

\* the number of (non-overlapping) occurrences of needle in hay
RECURSIVE CountFrom(_, _, _)
CountFrom(hay, needle, p) ==
    LET i == FindSub(hay, needle, p)
    IN  IF i = -1 THEN 0 ELSE 1 + CountFrom(hay, needle, i + Len(needle))

Count(hay, needle) == CountFrom(hay, needle, 0)

\* C1: every ledger entry whose matched literal occurs exactly once in the
\* input text is gone from the returned anonymized text: the text does not
\* contain that literal as a substring.
C1_SingleLiteralRemoved ==
    Returned =>
        \A k \in Entries :
            Count(text, replacements[k].original) = 1
                => ~Contains(anonymized, replacements[k].original)

\* no pattern of the phones, ids, dates or insurance types matches t
OnlyNameAddressEmail(t) ==
    \A c \in 1..Len(Patterns) :
        Patterns[c].type \in {"phones", "ids", "dates", "insurance"}
            => \A r \in 1..Len(Patterns[c].rules) : ~Matches(Patterns[c].rules[r], t)

\* C2: for a text whose only identifying content is of the name, address or
\* email types, the reduced validator reports the redactor's output clean.
C2_RedactedIsValid ==
    (pc = "validated" /\ OnlyNameAddressEmail(text)) => validation.is_valid

\* the number of entries of the type of entry k among the first k entries
RankInType(k) ==
    Cardinality({j \in 1..k : replacements[j].type = replacements[k].type})

\* C3 (as claimed): the number in a placeholder comes from a counter kept per
\* category: the k-th entry of a category carries [<CATEGORY>_k], whatever the
\* other categories produced before it.
C3_PerCategoryCounter ==
    \A k \in Entries :
        replacements[k].replacement
            = <<"[">> \o Label(replacements[k].type) \o <<"_">>
              \o IntToStr(RankInType(k)) \o <<"]">>

\* C3 (amended): the number in a placeholder comes from one counter per run,
\* shared by all categories and starting at 1: the k-th entry of the whole
\* ledger carries [<CATEGORY>_k].
C3_RunCounter ==
    \A k \in Entries :
        replacements[k].replacement
            = <<"[">> \o Label(replacements[k].type) \o <<"_">>
              \o IntToStr(k) \o <<"]">>

\* a finished run whose ledger holds a second category after a first one
C3_Witness ==
    /\ pc = "done"
    /\ \E k \in Entries : k > 1 /\ replacements[k].type # replacements[1].type

\* C4: within one run no two ledger entries carry the same placeholder.
C4_UniquePlaceholders ==
    \A i, j \in Entries :
        i # j => replacements[i].replacement # replacements[j].replacement

\* a finished run with two entries of the same category
C4_Witness ==
    /\ pc = "done"
    /\ \E i, j \in Entries : i # j /\ replacements[i].type = replacements[j].type

\* the catalog order the ledger is to follow
CatalogOrder == <<"names", "addresses", "phones", "emails", "ids", "dates", "insurance">>

Rank(type) == CHOOSE r \in 1..Len(CatalogOrder) : CatalogOrder[r] = type

\* C5 (as claimed): the ledger is grouped by category in catalog order, and
\* within one category the entries are in left-to-right order of their
\* matches (non-decreasing start offset), also across the category's rules.
C5_CategoryThenOffset ==
    \A i, j \in Entries :
        i < j =>
            /\ Rank(replacements[i].type) <= Rank(replacements[j].type)
            /\ replacements[i].type = replacements[j].type
                   => replacements[i].position[1] <= replacements[j].position[1]

\* C5 (amended): the ledger is grouped by category in catalog order, within
\* a category by rule in the order of the category's rule list, and within
\* one rule the entries are in left-to-right order without overlap.
C5_CategoryRuleOffset ==
    \A i, j \in Entries :
        i < j =>
            /\ Rank(replacements[i].type) <= Rank(replacements[j].type)
            /\ replacements[i].type = replacements[j].type
                   => origin[i][2] <= origin[j][2]
            /\ (replacements[i].type = replacements[j].type /\ origin[i][2] = origin[j][2])
                   => replacements[i].position[2] <= replacements[j].position[1]

\* a finished run where a later rule of a category found a match to the left
\* of a match of an earlier rule of that category
C5_Witness ==
    /\ pc = "done"
    /\ \E i, j \in Entries :
          /\ i < j
          /\ replacements[i].type = replacements[j].type
          /\ origin[i][2] < origin[j][2]
          /\ replacements[j].position[1] < replacements[i].position[1]

\* C6: the recorded position of every ledger entry is an offset into the
\* input text: text[start:end] is the entry's original.
C6_OffsetsIntoOriginal ==
    \A k \in Entries :
        LET m == replacements[k].position
        IN  /\ m[2] <= Len(text)
            /\ SubSeq(text, m[1] + 1, m[2]) = replacements[k].original

\* some pattern of the catalog matches somewhere in t
AnyRuleMatches(t) ==
    \E c \in 1..Len(Patterns) :
        \E r \in 1..Len(Patterns[c].rules) : Matches(Patterns[c].rules[r], t)

\* C7: the run returns an empty ledger exactly when no pattern of the catalog
\* matches the input text, and then the anonymized text is the input text.
C7_EmptyLedgerIffNoMatch ==
    Returned =>
        /\ (Len(replacements) = 0) <=> ~AnyRuleMatches(text)
        /\ Len(replacements) = 0 => anonymized = text

\* a finished run on a non-empty text that no pattern matches
C7_Witness ==
    /\ pc = "done"
    /\ Len(text) >= 2
    /\ Len(replacements) = 0
    /\ anonymized = text

\* the ledger undone on a text: each placeholder replaced by its original,
\* the last entry first
RECURSIVE UndoFrom(_, _, _)
UndoFrom(a, reps, k) ==
    IF k = 0 THEN a
    ELSE UndoFrom(ReplaceFirst(a, reps[k].replacement, reps[k].original), reps, k - 1)

\* C8: undoing the ledger on the anonymized text gives back the input text.
C8_LedgerReversible ==
    pc = "done" => UndoFrom(anonymized, replacements, Len(replacements)) = text

-----------------------------------------------------------------------------
(* Properties of the validators, under SpecV                               *)

\* candidate texts made of ordinary words, blanks and placeholders only
RedactedTexts ==
    TextsOf({ <<"a","a">>, <<" ">>,
              <<"[","N","A","M","E","_","1","]">>,
              <<"[","A","D","R","E","S","S","E","_","1","]">> }, MaxCandidateTokens)

\* C9: a candidate text in which placeholders stand for every name and
\* address, with only ordinary words around them, is reported valid by the
\* reduced validator, with a score above 80.
C9_RedactedNotFlagged ==
    (pc = "checked" /\ candidate \in RedactedTexts)
        => (validation.is_valid /\ validation.anonymization_score > 80)

\* t holds a match of the name, phone number or email pattern of the full
\* validator
HasNamePhoneEmail(t) ==
    \/ Matches(ReFirstLast, t)
    \/ Matches(RePhoneNational, t)
    \/ Matches(ReEmail, t)

\* t holds a match of one of the other four patterns of the full validator
HasOtherCategory(t) ==
    \/ Matches(ReStreet, t)
    \/ Matches(RePersonalausweis, t)
    \/ Matches(ReInsurance, t)
    \/ Matches(ReDateNumeric, t)

ReportsSensitive(g) ==
    ~g.is_anonymized /\ Len(g.issues) > 0 /\ g.confidence_score < 100

ReportsClean(g) ==
    g.is_anonymized /\ Len(g.issues) = 0 /\ g.confidence_score = 100

\* C10 (as claimed): a text with a name, phone number or email is reported
\* not anonymized, with issues and a score below 100; the same text with each
\* of them replaced by its placeholder is reported anonymized, with no issue
\* and score 100.
C10_RawVsReplaced ==
    /\ (pc = "gdpr_raw" /\ HasNamePhoneEmail(raw)) => ReportsSensitive(gdpr)
    /\ (pc = "gdpr_replaced" /\ HasNamePhoneEmail(raw)) => ReportsClean(gdpr)

\* C10 (amended): a text with a name, phone number or email is reported not
\* anonymized, with issues and a score below 100; the same text with each of
\* them replaced by its placeholder has no name, phone number or email
\* finding left, and is reported anonymized, with no issue and score 100,
\* exactly when it holds no address, ID, insurance number or date.
C10_RawVsReplacedOtherFree ==
    /\ (pc = "gdpr_raw" /\ HasNamePhoneEmail(raw)) => ReportsSensitive(gdpr)
    /\ (pc = "gdpr_replaced" /\ HasNamePhoneEmail(raw)) =>
          /\ \A k \in 1..Len(gdpr.issues) :
                gdpr.issues[k].type
                    \notin {"german_names", "phone_numbers", "email_addresses"}
          /\ ReportsClean(gdpr) <=> ~HasOtherCategory(candidate)

\* a text with a name, phone number or email whose placeholder version was
\* validated and found clean
C10_Witness ==
    /\ pc = "gdpr_replaced"
    /\ HasNamePhoneEmail(raw)
    /\ candidate # raw
    /\ ReportsClean(gdpr)

GDPRValidated == pc \in {"gdpr_raw", "gdpr_replaced"}

\* C11: the reduced validator collects every match of the name, address and
\* email pattern on the candidate text into one flat list, the score is
\* 100 - 10 * (length of the list), not below 0, and the text is valid
\* exactly when the list is empty.
C11_FlatListAndScore ==
    pc = "checked" =>
        LET issues == FindAll(ReFirstLast, candidate)
                      \o FindAll(RePostalCity, candidate)
                      \o FindAll(ReEmail, candidate)
            score == 100 - 10 * Len(issues)
        IN  /\ validation.potential_issues = issues
            /\ validation.anonymization_score = (IF score > 0 THEN score ELSE 0)
            /\ validation.is_valid = (Len(issues) = 0)

\* a validated candidate with matches of two of the three patterns
C11_Witness ==
    /\ pc = "checked"
    /\ Matches(ReFirstLast, candidate)
    /\ Matches(ReEmail, candidate)
    /\ Len(validation.potential_issues) >= 2

\* the matches of all patterns of the full validator on t, counted
RECURSIVE MatchTotal(_, _)
MatchTotal(c, t) ==
    IF c = 0 THEN 0
    ELSE Len(FindAll(SensitivePatterns[c].pattern, t)) + MatchTotal(c - 1, t)

\* C12: the full validator runs seven categories, reports one finding for
\* each category with at least one match and none for the others, a finding
\* carries the category, its matches and the severity (high for names,
\* addresses and phone numbers, medium otherwise), and the score is
\* 100 - 15 * (matches of all categories together), not below 0.
C12_FindingPerCategory ==
    GDPRValidated =>
        LET fs == gdpr.issues
            found(name) == {k \in 1..Len(fs) : fs[k].type = name}
            score == 100 - 15 * MatchTotal(Len(SensitivePatterns), candidate)
        IN  /\ Len(SensitivePatterns) = 7
            /\ \A c \in 1..Len(SensitivePatterns) :
                  LET p == SensitivePatterns[c]
                  IN  /\ Cardinality(found(p.name))
                            = (IF Matches(p.pattern, candidate) THEN 1 ELSE 0)
                      /\ \A k \in found(p.name) :
                            /\ fs[k].matches = FindAll(p.pattern, candidate)
                            /\ fs[k].severity =
                                  (IF p.name \in {"german_names", "addresses",
                                                  "phone_numbers"}
                                   THEN "high" ELSE "medium")
            /\ \A k \in 1..Len(fs) :
                  \E c \in 1..Len(SensitivePatterns) :
                      fs[k].type = SensitivePatterns[c].name
            /\ gdpr.confidence_score = (IF score > 0 THEN score ELSE 0)

\* a report with a phone number finding and a finding of medium severity
C12_Witness ==
    /\ GDPRValidated
    /\ \E i, j \in 1..Len(gdpr.issues) :
          /\ gdpr.issues[i].type = "phone_numbers"
          /\ gdpr.issues[i].severity = "high"
          /\ gdpr.issues[j].severity = "medium"
    /\ gdpr.confidence_score < 100

\* C14: for both validators the score is an integer from 0 to 100, and the
\* text is reported clean exactly when the score is 100.
C14_ScoreRange ==
    /\ pc = "checked" =>
          /\ validation.anonymization_score \in 0..100
          /\ validation.is_valid <=> validation.anonymization_score = 100
    /\ GDPRValidated =>
          /\ gdpr.confidence_score \in 0..100
          /\ gdpr.is_anonymized <=> gdpr.confidence_score = 100

\* a candidate with more than ten matches: the penalties exceed 100
C14_Witness ==
    /\ pc = "checked"
    /\ Len(validation.potential_issues) > 10
    /\ validation.anonymization_score = 0

\* the redactor's category of a category of the full validator
Category(name) ==
    CASE name = "german_names"      -> "names"
      [] name = "addresses"         -> "addresses"
      [] name = "phone_numbers"     -> "phones"
      [] name = "email_addresses"   -> "emails"
      [] name = "german_ids"        -> "ids"
      [] name = "dates"             -> "dates"
      [] name = "insurance_numbers" -> "insurance"

\* the findings of the last validation are in the catalog order
FindingsInCatalogOrder ==
    \A i, j \in 1..Len(gdpr.issues) :
        i < j => Rank(Category(gdpr.issues[i].type))
                    < Rank(Category(gdpr.issues[j].type))

\* C15: the redactor and the full validator iterate the categories in the
\* same order, name, address, phone, email, government id, date, insurance
\* id: so the findings of a validation are in that order too.
C15_SameCategoryOrder ==
    GDPRValidated =>
        /\ [c \in 1..Len(SensitivePatterns) |-> Category(SensitivePatterns[c].name)]
              = [c \in 1..Len(Patterns) |-> Patterns[c].type]
        /\ [c \in 1..Len(Patterns) |-> Patterns[c].type] = CatalogOrder
        /\ FindingsInCatalogOrder

-----------------------------------------------------------------------------
(* Properties of pairs of validator calls, under SpecP                     *)

\* how often x is in the list
CountIn(list, x) == Cardinality({i \in 1..Len(list) : list[i] = x})

\* every match of list a is in list b, as often as in a at least
SubBag(a, b) == \A i \in 1..Len(a) : CountIn(a, a[i]) <= CountIn(b, a[i])

\* the matches of b are a strict superset of the matches of a
StrictSuperset(b, a) == SubBag(a, b) /\ ~SubBag(b, a)

\* the leaked matches of a report of the full validator, with their category
Leaks(g) ==
    Flatten([k \in 1..Len(g.issues) |->
                [i \in 1..Len(g.issues[k].matches) |->
                    <<g.issues[k].type, g.issues[k].matches[i]>>]])

\* C13: for both validators, when the leaked matches of a second text are a
\* strict superset of the leaked matches of a first text, the score of the
\* second text is at most the score of the first.
C13_ScoreMonotone ==
    /\ (pc = "checked_twice"
           /\ StrictSuperset(validation2.potential_issues, validation.potential_issues))
          => validation2.anonymization_score <= validation.anonymization_score
    /\ (pc = "gdpr_twice" /\ StrictSuperset(Leaks(gdpr2), Leaks(gdpr)))
          => gdpr2.confidence_score <= gdpr.confidence_score

\* two texts with leaks, the second with those of the first and more
C13_Witness ==
    /\ pc = "gdpr_twice"
    /\ Len(Leaks(gdpr)) > 0
    /\ StrictSuperset(Leaks(gdpr2), Leaks(gdpr))
    /\ gdpr2.confidence_score < gdpr.confidence_score

\* C16: the report of the reduced validator depends on the candidate text
\* only: two calls with the same candidate return the same report, whatever
\* their originals are.
C16_OriginalIgnored ==
    (pc = "checked_twice" /\ other = candidate) => validation2 = validation

\* two calls with one candidate and two originals, one of them the candidate
C16_Witness ==
    /\ pc = "checked_twice"
    /\ other = candidate
    /\ original2 # text
    /\ candidate \in {text, original2}

-----------------------------------------------------------------------------
(* Properties of the public entry, under Spec                              *)

\* C17: a call of the redactor sends nothing to the network: no request
\* body has left the process.
C17_NoNetwork == Len(sent) = 0

-----------------------------------------------------------------------------
(* Properties of concurrent calls, under SpecC                             *)

\* the locals _anonymize_locally ends with when it runs alone on its input
RECURSIVE RunLocals(_)
RunLocals(L) ==
    LET r == StepLocals(Patterns, L)
    IN  IF r.done THEN r.loc ELSE RunLocals(r.loc)

RunAlone(t) == ResultOf(RunLocals(StartLocals(t)))

\* C18: whatever the interleaving of the callers, the tables in memory are
\* as they were at the start, and the result of every call is the result the
\* call has when it runs alone on its input.
C18_CallsIndependent ==
    /\ tables = InitialTables
    /\ \A c \in Callers :
          /\ frames[c].pc = "done" => frames[c].result = RunAlone(frames[c].arg)
          /\ frames[c].pc = "validated"
                => frames[c].result = GDPRValidateAnonymization(frames[c].arg)
          /\ frames[c].pc = "retained"
                => frames[c].result = frames[c].arg[2] + DefaultRetentionDays

\* one caller has returned from a redaction while another, called with
\* another text, is in the middle of its own
C18_Witness ==
    \E c, d \in Callers :
        /\ frames[c].pc = "done"
        /\ Len(frames[c].result.replacements) > 0
        /\ frames[d].pc = "scan"
        /\ Len(frames[d].loc.replacements) > 0
        /\ frames[d].arg # frames[c].arg

-----------------------------------------------------------------------------
(* Properties of the retention helper, under SpecR                         *)

\* the days between the created date and the retention date of the last call
RetainedDays == retention.result - retention.created_date

\* C19: the retention date is the created date plus 2555 days for medical
\* records, 2190 for audit logs, 1095 for AI interactions, 2555 for consent
\* records, 3650 for anonymized data, and plus 2555 days for every other
\* data type, for which the call returns as for a known one.
C19_RetentionDate ==
    pc = "retained" =>
        RetainedDays =
            CASE retention.data_type = "medical_records" -> 2555
              [] retention.data_type = "audit_logs"      -> 2190
              [] retention.data_type = "ai_interactions" -> 1095
              [] retention.data_type = "consent_records" -> 2555
              [] retention.data_type = "anonymized_data" -> 3650
              [] OTHER                                   -> 2555

\* a call for a data type the table does not hold, with a created date
C19_Witness ==
    /\ pc = "retained"
    /\ retention.data_type \notin DOMAIN RetentionPeriods
    /\ ~retention.defaulted
    /\ retention.created_date > 0

\* C20 (as claimed): the period of an unknown data type is at least the
\* period of every data type of the table.
C20_DefaultIsLongest ==
    (pc = "retained" /\ retention.data_type \notin DOMAIN RetentionPeriods)
        => \A k \in DOMAIN RetentionPeriods : RetainedDays >= RetentionPeriods[k]

\* C20 (amended): the period of an unknown data type is the period of the
\* medical records: at least the period of every data type of the table
\* but the anonymized data, and shorter than that one.
C20_DefaultIsMedical ==
    (pc = "retained" /\ retention.data_type \notin DOMAIN RetentionPeriods)
        => /\ RetainedDays = RetentionPeriods["medical_records"]
           /\ \A k \in DOMAIN RetentionPeriods \ {"anonymized_data"} :
                 RetainedDays >= RetentionPeriods[k]
           /\ RetainedDays < RetentionPeriods["anonymized_data"]

\* a call for an unknown data type without a created date
C20_Witness ==
    /\ pc = "retained"
    /\ retention.data_type \notin DOMAIN RetentionPeriods
    /\ retention.defaulted

-----------------------------------------------------------------------------
(* Properties of the GDPRCompliance helpers, under SpecG                   *)

Helped(call) == pc = "helped" /\ helper.call = call

\* the seven request types and their articles
SevenRights ==
    [access              |-> "Article 15 - Right of access",
     rectification       |-> "Article 16 - Right to rectification",
     erasure             |-> "Article 17 - Right to erasure",
     restrict_processing |-> "Article 18 - Right to restriction of processing",
     data_portability    |-> "Article 20 - Right to data portability",
     object              |-> "Article 21 - Right to object",
     withdraw_consent    |-> "Article 7(3) - Right to withdraw consent"]

\* C21: a data subject rights request is answered valid, with the article of
\* its type as legal basis, exactly when its type is one of the seven types;
\* for every other type the answer is not valid and holds an error text and
\* the list of exactly the seven types.
C21_RightsRequest ==
    Helped("validate_data_subject_rights") =>
        LET request_type == helper.args[1]
            r == helper.result
        IN  /\ r.valid <=> request_type \in DOMAIN SevenRights
            /\ r.valid => /\ r.legal_basis = SevenRights[request_type]
                           /\ r.request_type = request_type
                           /\ r.patient_id = helper.args[2]
            /\ ~r.valid => /\ "error" \in DOMAIN r
                            /\ Len(r.valid_types) = 7
                            /\ Range(r.valid_types) = DOMAIN SevenRights

\* a request of a type that is not one of the seven
C21_Witness ==
    /\ Helped("validate_data_subject_rights")
    /\ helper.args[1] = "invalid_request"
    /\ ~helper.result.valid

\* C22: the risk score is 30 for a high-risk activity, plus 25 for special
\* category data, plus 20 for large scale, plus 25 for automated decisions;
\* a DPIA is required from 50 on; the level is high from 70 on, medium from
\* 40 on and low below.
C22_RiskScore ==
    Helped("assess_privacy_impact") =>
        LET r == helper.result
            score ==
                (IF helper.args[1] \in {"profiling", "automated_decision_making",
                                         "large_scale_processing"} THEN 30 ELSE 0)
                + (IF helper.args[2] = "special_category" THEN 25 ELSE 0)
                + (IF helper.args[3] = "large_scale" THEN 20 ELSE 0)
                + (IF helper.args[4] THEN 25 ELSE 0)
        IN  /\ r.risk_score = score
            /\ r.dpia_required <=> score >= 50
            /\ r.risk_level = (IF score >= 70 THEN "high"
                               ELSE IF score >= 40 THEN "medium" ELSE "low")

\* an assessment whose score is the DPIA threshold itself
C22_Witness ==
    /\ Helped("assess_privacy_impact")
    /\ helper.result.risk_score = 50
    /\ helper.result.dpia_required
    /\ helper.result.risk_level = "medium"

\* C23: the consent id is the hash of patient id, consent type and the
\* timestamp of the record itself, joined by one separator, so it can be
\* computed again from the fields of the record.
C23_IdFromRecord ==
    Helped("generate_consent_record") =>
        LET r == helper.result
        IN  \E sep \in {"|", "-"} :
                r.consent_id
                    = Hash16(<<r.patient_id, sep, r.consent_type, sep, r.timestamp>>)

-----------------------------------------------------------------------------
(* Further properties of the redactor, under Spec                          *)

\* C24: for the consultation note with one date the ledger has exactly one
\* entry, of the dates category with original 15.12.2023, the returned text
\* holds [DATUM_1] in place of the date, and the ordinary words next to the
\* date are left untouched.
C24_OnlyTheDate ==
    (pc = "done" /\ text = Konsultation) =>
        /\ Len(replacements) = 1
        /\ replacements[1].type = "dates"
        /\ replacements[1].original = <<"1","5",".","1","2",".","2","0","2","3">>
        /\ anonymized
             = ReplaceFirst(Konsultation,
                            <<"1","5",".","1","2",".","2","0","2","3">>,
                            <<"[","D","A","T","U","M","_","1","]">>)

\* hay with its leftmost occurrences of needle replaced, one after the other
\* from left to right, by the texts of news
RECURSIVE ReplaceLeftmost(_, _, _)
ReplaceLeftmost(hay, needle, news) ==
    IF news = <<>> THEN hay
    ELSE LET i == FindSub(hay, needle, 0)
         IN  IF i = -1 THEN hay
             ELSE SubSeq(hay, 1, i) \o Head(news)
                  \o ReplaceLeftmost(SubSeq(hay, i + Len(needle) + 1, Len(hay)),
                                     needle, Tail(news))

\* C25: when one literal is matched k times in a run (and nothing else is
\* matched), the k leftmost occurrences of the literal in the input are
\* replaced by the k placeholders of the ledger, in order.
C25_NextOccurrence ==
    (/\ pc = "done"
     /\ Len(replacements) >= 2
     /\ \A k \in Entries : replacements[k].original = replacements[1].original) =>
        anonymized = ReplaceLeftmost(text, replacements[1].original,
                                     [k \in Entries |-> replacements[k].replacement])

\* C27: for an input that holds no bracket of its own, every placeholder of
\* the ledger occurs exactly once in the returned text.
C27_PlaceholdersIntact ==
    (pc = "done" /\ ~Contains(text, <<"[">>)) =>
        \A k \in Entries : Count(anonymized, replacements[k].replacement) = 1

\* the ledger entries the rule in progress has made
MadeByCurrentRule == Cardinality({k \in 1..Len(origin) : origin[k] = <<ci, ri>>})

\* C28: a run of the redactor ends; while a rule is in progress its entries
\* and the matches its iterator has yet to yield add up to the non-overlapping
\* matches of the rule in the text as it stood when the rule started, and that
\* text is not changed by the placeholders the rule inserts.
C28_Terminates ==
    /\ (pc = "scan") ~> (pc = "done")
    /\ (pc = "posted") ~> (pc \in {"done", "remote_done"})
    /\ [](pc = "scan" =>
             MadeByCurrentRule + Len(FindAllFrom(CurrentRule, scan, pos))
                = Len(FindAll(CurrentRule, scan)))
    /\ [][(pc = "scan" /\ pc' = "scan" /\ ci' = ci /\ ri' = ri) => scan' = scan]_vars

\* a finished run in which one rule made two entries
C28_Witness ==
    /\ pc = "done"
    /\ \E i, j \in 1..Len(origin) : i < j /\ origin[i] = origin[j]
    /\ anonymized # text

\* C29: with use_n8n the text is posted to n8n first and, when the request
\* fails, the result is the local redaction of the same text; without
\* use_n8n nothing is posted and the result is the local redaction.
C29_LocalFallback ==
    /\ (pc # "idle" /\ use_n8n) => sent = <<RequestBody(text)>>
    /\ (pc # "idle" /\ ~use_n8n) => sent = <<>>
    /\ pc = "done" =>
          RunAlone(text) = [original_text |-> text,
                            anonymized_text |-> anonymized,
                            replacements |-> replacements,
                            replacement_count |-> Len(replacements)]

\* a failed request to n8n followed by a local run that redacted something
C29_Witness ==
    /\ pc = "done"
    /\ use_n8n
    /\ Len(sent) = 1
    /\ Len(replacements) > 0

-----------------------------------------------------------------------------
(* Properties of the AI service, under SpecA                               *)

\* a line that is a bullet item or a numbered item, as the parser itself
\* recognises items: by a bullet, a dash, a star, or 1. 2. 3.
IsItemLine(line) == \E prefix \in ItemPrefixes : StartsWith(line, prefix)

\* the section a header line opens, "None" for a line that is no header
HeaderOf(line) ==
    IF IsItemLine(line) THEN "None"
    ELSE IF Contains(Lower(line), KwDiagnose) THEN "diagnoses"
    ELSE IF Contains(Lower(line), KwTest) \/ Contains(Lower(line), KwUntersuchung)
    THEN "tests"
    ELSE IF Contains(Lower(line), KwBehandlung) THEN "treatments"
    ELSE "None"

\* the items of the lines rest that stand under a header of section, in
\* order; current is the section of the last header seen
RECURSIVE ItemsUnder(_, _, _)
ItemsUnder(rest, section, current) ==
    IF rest = <<>> THEN <<>>
    ELSE LET line == Strip(Head(rest))
         IN  IF IsItemLine(line)
             THEN (IF current = section
                   THEN << LStrip(line, ItemStripChars) >>
                   ELSE <<>>)
                  \o ItemsUnder(Tail(rest), section, current)
             ELSE IF HeaderOf(line) # "None"
             THEN ItemsUnder(Tail(rest), section, HeaderOf(line))
             ELSE ItemsUnder(Tail(rest), section, current)

\* C26: every bullet or numbered item line under a diagnoses, tests or
\* treatment header is returned in the list of that section, in input order;
\* no item is dropped or put into another section, and items before the
\* first header are ignored.
C26_ItemsUnderHeaders ==
    pc = "parsed" =>
        /\ parser.diagnoses = ItemsUnder(parser.response, "diagnoses", "None")
        /\ parser.tests = ItemsUnder(parser.response, "tests", "None")
        /\ parser.treatments = ItemsUnder(parser.response, "treatments", "None")

\* the canned answer for the session of this call
IsCanned(outcome) ==
    /\ outcome.confidence = "low"
    /\ outcome.model_used = "fallback"
    /\ outcome.processing_time = 0
    /\ outcome.session_id = chat.session_id

\* the outcome of a finished call, by whether the first and the second
\* request count as answered
OutcomeInOrder(answered1, answered2) ==
    /\ chat.requests[1].to = "ollama"
    /\ IF answered1
       THEN /\ Len(chat.requests) = 1
            /\ chat.outcome.response = chat.replies[1].body.response
            /\ chat.outcome.session_id = chat.session_id
       ELSE /\ Len(chat.requests) = 2
            /\ Len(chat.replies) = 2
            /\ chat.requests[2].to = "n8n"
            /\ chat.requests[2].session_id = chat.session_id
            /\ IF answered2
               THEN chat.outcome = chat.replies[2].body
               ELSE IsCanned(chat.outcome)

Status200(reply) == ~reply.raised /\ reply.status = 200

=============================================================================
